---- MODULE Spec2Model ----
(***************************************************************************)
(* Model of src/jpeg_encoder.c: the encoder context lifecycle              *)
(* (jpeg_encoder_create, jpeg_encoder_destroy) and the per-image pipeline  *)
(* (jpeg_encoder_encode).                                                  *)
(*                                                                         *)
(* Every context of Ctx is one caller-side slot that holds at most one     *)
(* struct jpeg_encoder*.  Each source statement that can fail, allocate,   *)
(* release or emit is one action; pc[c] is the position of the call that   *)
(* is in progress on context c.  The collaborators that live outside       *)
(* src/jpeg_encoder.c (writer, preprocessor, Huffman coder, table          *)
(* initialisers, CUDA and NPP) are modelled by their status and by the     *)
(* effect the encoder relies on.                                           *)
(*                                                                         *)
(* assert() is modelled with its <assert.h> meaning: a false condition     *)
(* aborts the process.                                                     *)
(***************************************************************************)
EXTENDS Integers, Sequences, FiniteSets, TLC

\* ------------------------------------------------------------------ bounds
\* width and height range over 1..MaxDim
MaxDim == 2
\* create calls the caller makes on one context slot
MaxCreates == 2
\* tokens one Huffman scan may append to the writer (0..MaxScanLen)
MaxScanLen == 1

\* ------------------------------------------------------- program constants
JPEG_COMPONENT_TYPE_COUNT == 2
JPEG_HUFFMAN_TYPE_COUNT == 2
JPEG_COMPONENT_LUMINANCE == 0
JPEG_COMPONENT_CHROMINANCE == 1
\* sizeof(uint8_t), sizeof(int16_t), sizeof(uint16_t)
SizeofU8 == 1
SizeofI16 == 2
SizeofU16 == 2
\* entries of one quantization table
TableEntries == 64

Ctx == {"A", "B"}
Dims == 1..MaxDim
CompCounts == {1, 3, 4}
Qualities == {75}

Resources ==
    {"encoder", "writer", "d_data_source", "d_data", "data_quantized",
     "d_data_quantized", "d_table0", "d_table1"}

\* ---------------------------------------------------------------- pointers
Uninit == [st |-> "uninit", size |-> 0]
NullPtr == [st |-> "null", size |-> 0]
Live(n) == [st |-> "live", size |-> n]
Freed(p) == [p EXCEPT !.st = "freed"]

\* struct jpeg_encoder as malloc returns it: no field is initialised
RawEncoder ==
    [width |-> 0, height |-> 0, comp_count |-> 0, quality |-> 0,
     writer |-> Uninit, d_data_source |-> Uninit, d_data |-> Uninit,
     data_quantized |-> Uninit, d_data_quantized |-> Uninit,
     d_table |-> [t \in 0..(JPEG_COMPONENT_TYPE_COUNT - 1) |-> Uninit],
     tq_init |-> {}, th_init |-> {}]

\* struct jpeg_writer: buffer and the cursor buffer_current as offsets into
\* the writer's buffer, and data, the tokens the buffer holds from its start up
\* to the end of the last emission (what lies behind it is not kept)
NoWriter == [buffer |-> 0, buffer_current |-> 0, data |-> <<>>]

NoArgs == [width |-> 0, height |-> 0, comp_count |-> 0, quality |-> 0]
NoRet == [op |-> "none", val |-> "none"]
NoOut == [ptr |-> -1, size |-> -1, written |-> FALSE]

\* the components of an image (comp_count is 3 on every context)
Components == 0..2

\* what one component region of a coefficient buffer holds: the transform
\* output that context `by` produced for component `comp`, or nothing defined
Data(c, k) == [by |-> c, comp |-> k]
NoData == [by |-> "none", comp |-> -1]
\* what a write of context c that ran past the end of its source left behind:
\* bytes of c's call that are no component's transform output
Spill(c) == [by |-> c, comp |-> -1]

\* the contents of d_data_quantized (dq) and data_quantized (hq), by the
\* component region [k * width * height, (k + 1) * width * height)
NoMem == [dq |-> [k \in Components |-> NoData], hq |-> [k \in Components |-> NoData]]

\* one event of the call in progress: what was invoked, for which component
\* (or table index) and component class, whether it succeeded, for an
\* emission the offset it was written at and the number of tokens it wrote,
\* and for a stage that works on a coefficient region the element range
\* [lo, hi) it was given and the data the stage read there
EvR(e, k, t, ok, at, len, lo, hi, d) ==
    [ev |-> e, comp |-> k, type |-> t, ok |-> ok, at |-> at, len |-> len,
     lo |-> lo, hi |-> hi, data |-> d]
Ev(e, k, ok, at, len) == EvR(e, k, -1, ok, at, len, -1, -1, NoData)
EvT(e, k, t, ok, at, len) == EvR(e, k, t, ok, at, len, -1, -1, NoData)

VARIABLES
    active,     \* the context slots the caller uses
    proc,       \* "running", "aborted" (failed assert) or "crashed" (fault)
    pc,         \* per context: position of the call in progress
    args,       \* per context: arguments of the last create call
    enc,        \* per context: the struct jpeg_encoder the call works on
    writer,     \* per context: the struct jpeg_writer of enc.writer
    heap,       \* per context: live allocations per resource
    heap0,      \* per context: heap as it was when create was last called
    creates,    \* per context: create calls made so far
    encoded,    \* per context: encode was called on the current handle
    idx,        \* per context: the loop variables comp_type, huff_type, comp
    ret,        \* per context: what the last finished call returned
    out,        \* per context: the caller's *image_compressed, *image_compressed_size
    trace,      \* per context: events of the call in progress (or last finished)
    acc,        \* per context: the buffer accesses of the last step
    mem         \* per context: what the coefficient buffers hold, per component

vars ==
    <<active, proc, pc, args, enc, writer, heap, heap0, creates, encoded, idx, ret,
      out, trace, acc, mem>>

NoIdx == [comp_type |-> 0, huff_type |-> 0, comp |-> 0]

InitCommon ==
    /\ proc = "running"
    /\ pc = [c \in Ctx |-> "idle"]
    /\ args = [c \in Ctx |-> NoArgs]
    /\ enc = [c \in Ctx |-> RawEncoder]
    /\ writer = [c \in Ctx |-> NoWriter]
    /\ heap = [c \in Ctx |-> [r \in Resources |-> 0]]
    /\ heap0 = [c \in Ctx |-> [r \in Resources |-> 0]]
    /\ creates = [c \in Ctx |-> 0]
    /\ encoded = [c \in Ctx |-> FALSE]
    /\ idx = [c \in Ctx |-> NoIdx]
    /\ ret = [c \in Ctx |-> NoRet]
    /\ out = [c \in Ctx |-> NoOut]
    /\ trace = [c \in Ctx |-> <<>>]
    /\ acc = [c \in Ctx |-> {}]
    /\ mem = [c \in Ctx |-> NoMem]

Init ==
    /\ active = {"A"}
    /\ InitCommon

\* ----------------------------------------------------------------- helpers
Goto(c, l) == pc' = [pc EXCEPT ![c] = l]
Log(c, e) == trace' = [trace EXCEPT ![c] = Append(@, e)]
Alloc(c, r) == heap' = [heap EXCEPT ![c][r] = @ + 1]
Release(c, r) == heap' = [heap EXCEPT ![c][r] = @ - 1]
Return(c, op, val) == ret' = [ret EXCEPT ![c] = [op |-> op, val |-> val]]
Running(c, l) == proc = "running" /\ c \in active /\ pc[c] = l

\* ------------------------------------------------------ jpeg_encoder_create
\* The caller calls create(width, height, comp_count, quality); line 37
\* asserts comp_count == 3 before anything is allocated.
CreateCall(c) ==
    /\ Running(c, "idle")
    /\ creates[c] < MaxCreates
    /\ \E w \in Dims, h \in Dims, cc \in CompCounts, q \in Qualities :
        /\ args' = [args EXCEPT ![c] =
                      [width |-> w, height |-> h, comp_count |-> cc, quality |-> q]]
        /\ IF cc = 3
             THEN /\ Goto(c, "cr_malloc")
                  /\ proc' = proc
             ELSE /\ Goto(c, "cr_abort")
                  /\ proc' = "aborted"
    /\ creates' = [creates EXCEPT ![c] = @ + 1]
    /\ encoded' = [encoded EXCEPT ![c] = FALSE]
    /\ heap0' = [heap0 EXCEPT ![c] = heap[c]]
    /\ trace' = [trace EXCEPT ![c] = <<>>]
    /\ ret' = [ret EXCEPT ![c] = NoRet]
    /\ acc' = [acc EXCEPT ![c] = {}]
    /\ out' = [out EXCEPT ![c] = NoOut]
    /\ UNCHANGED <<active, enc, writer, heap, idx, mem>>

\* what every failing step of create does: return NULL, release nothing.
\* The caller is left without a handle and does not use the slot again.
CreateFail(c, step, k) ==
    /\ Goto(c, "failed")
    /\ Return(c, "create", "NULL")
    /\ Log(c, Ev(step, k, FALSE, -1, 0))

\* lines 39-47: malloc of the aggregate, then the parameters
CreateMalloc(c) ==
    /\ Running(c, "cr_malloc")
    /\ \/ /\ CreateFail(c, "malloc", 0)
          /\ UNCHANGED <<enc, heap>>
       \/ /\ enc' = [enc EXCEPT ![c] =
                      [RawEncoder EXCEPT !.width = args[c].width,
                                         !.height = args[c].height,
                                         !.comp_count = args[c].comp_count,
                                         !.quality = args[c].quality]]
          /\ Alloc(c, "encoder")
          /\ Goto(c, "cr_writer")
          /\ Log(c, Ev("malloc", 0, TRUE, -1, 0))
          /\ UNCHANGED ret
    /\ UNCHANGED <<active, proc, args, writer, heap0, creates, encoded, idx, out, acc,
                   mem>>

\* jpeg_writer_create(encoder): the writer with its buffer, or NULL
WriterCreate(ok) == IF ok THEN Live(1) ELSE NullPtr

\* lines 49-52
CreateWriter(c) ==
    /\ Running(c, "cr_writer")
    /\ \E ok \in BOOLEAN :
        /\ enc' = [enc EXCEPT ![c].writer = WriterCreate(ok)]
        /\ IF ok
             THEN /\ Alloc(c, "writer")
                  /\ writer' = [writer EXCEPT ![c] = NoWriter]
                  /\ Goto(c, "cr_src")
                  /\ Log(c, Ev("writer", 0, TRUE, -1, 0))
                  /\ UNCHANGED ret
             ELSE /\ CreateFail(c, "writer", 0)
                  /\ UNCHANGED <<heap, writer>>
    /\ UNCHANGED <<active, proc, args, heap0, creates, encoded, idx, out, acc, mem>>

\* line 55: int data_size = encoder->width * encoder->width * encoder->comp_count
CreateDataSize(e) == e.width * e.width * e.comp_count

\* one cudaMalloc / cudaMallocHost of create's data buffers (lines 56-63):
\* on success the field points to `bytes` bytes, on failure create returns NULL
CreateBuffer(c, here, field, bytes, next) ==
    /\ Running(c, here)
    /\ \/ /\ CreateFail(c, field, 0)
          /\ UNCHANGED <<enc, heap>>
       \/ /\ enc' = [enc EXCEPT ![c][field] = Live(bytes)]
          /\ Alloc(c, field)
          /\ Goto(c, next)
          /\ Log(c, Ev(field, 0, TRUE, -1, 0))
          /\ UNCHANGED ret
    /\ UNCHANGED <<active, proc, args, writer, heap0, creates, encoded, idx, out, acc,
                   mem>>

\* line 56
CreateDataSource(c) ==
    CreateBuffer(c, "cr_src", "d_data_source",
                 CreateDataSize(enc[c]) * SizeofU8, "cr_data")

\* line 58
CreateData(c) ==
    CreateBuffer(c, "cr_data", "d_data",
                 CreateDataSize(enc[c]) * SizeofU8, "cr_hq")

\* line 60
CreateDataQuantizedHost(c) ==
    CreateBuffer(c, "cr_hq", "data_quantized",
                 CreateDataSize(enc[c]) * SizeofI16, "cr_dq")

\* line 62
CreateDataQuantizedDev(c) ==
    CreateBuffer(c, "cr_dq", "d_data_quantized",
                 CreateDataSize(enc[c]) * SizeofI16, "cr_qalloc")

TableName(t) == IF t = 0 THEN "d_table0" ELSE "d_table1"

\* CreateTableAlloc with what the call acquired released on the failure path
CreateTableAlloc_CleansUp(c) ==
    /\ Running(c, "cr_qalloc")
    /\ LET t == idx[c].comp_type IN
        \/ /\ CreateFail(c, "d_table", t)
           /\ heap' = [heap EXCEPT ![c] = heap0[c]]
           /\ UNCHANGED <<enc, idx>>
        \/ /\ enc' = [enc EXCEPT ![c].d_table[t] = Live(TableEntries * SizeofU16)]
           /\ Alloc(c, TableName(t))
           /\ Log(c, Ev("d_table", t, TRUE, -1, 0))
           /\ IF t + 1 < JPEG_COMPONENT_TYPE_COUNT
                THEN /\ idx' = [idx EXCEPT ![c].comp_type = t + 1]
                     /\ UNCHANGED pc
                ELSE /\ idx' = [idx EXCEPT ![c].comp_type = 0]
                     /\ Goto(c, "cr_qinit")
           /\ UNCHANGED ret
    /\ UNCHANGED <<active, proc, args, writer, heap0, creates, encoded, out, acc, mem>>

\* lines 66-69: one iteration of the table-slot allocation loop
CreateTableAlloc(c) ==
    /\ Running(c, "cr_qalloc")
    /\ LET t == idx[c].comp_type IN
        \/ /\ CreateFail(c, "d_table", t)
           /\ UNCHANGED <<enc, heap, idx>>
        \/ /\ enc' = [enc EXCEPT ![c].d_table[t] = Live(TableEntries * SizeofU16)]
           /\ Alloc(c, TableName(t))
           /\ Log(c, Ev("d_table", t, TRUE, -1, 0))
           /\ IF t + 1 < JPEG_COMPONENT_TYPE_COUNT
                THEN /\ idx' = [idx EXCEPT ![c].comp_type = t + 1]
                     /\ UNCHANGED pc
                ELSE /\ idx' = [idx EXCEPT ![c].comp_type = 0]
                     /\ Goto(c, "cr_qinit")
           /\ UNCHANGED ret
    /\ UNCHANGED <<active, proc, args, writer, heap0, creates, encoded, out, acc, mem>>

\* lines 72-75: one iteration of the quantization-table initialisation loop
CreateTableQuantInit(c) ==
    /\ Running(c, "cr_qinit")
    /\ LET t == idx[c].comp_type IN
        \/ /\ CreateFail(c, "qinit", t)
           /\ UNCHANGED <<enc, idx>>
        \/ /\ enc' = [enc EXCEPT ![c].tq_init = @ \cup {t}]
           /\ Log(c, Ev("qinit", t, TRUE, -1, 0))
           /\ IF t + 1 < JPEG_COMPONENT_TYPE_COUNT
                THEN /\ idx' = [idx EXCEPT ![c].comp_type = t + 1]
                     /\ UNCHANGED pc
                ELSE /\ idx' = [idx EXCEPT ![c].comp_type = 0, ![c].huff_type = 0]
                     /\ Goto(c, "cr_hinit")
           /\ UNCHANGED ret
    /\ UNCHANGED <<active, proc, args, writer, heap, heap0, creates, encoded, out, acc,
                   mem>>

\* CreateTableHuffInit with the status of the initialisation not looked at
CreateTableHuffInit_IgnoresStatus(c) ==
    /\ Running(c, "cr_hinit")
    /\ LET t == idx[c].comp_type
           u == idx[c].huff_type
           k == t * JPEG_HUFFMAN_TYPE_COUNT + u IN
        /\ \E ok \in BOOLEAN :
            /\ enc' = [enc EXCEPT ![c].th_init = IF ok THEN @ \cup {<<t, u>>} ELSE @]
            /\ Log(c, Ev("hinit", k, ok, -1, 0))
        /\ IF u + 1 < JPEG_HUFFMAN_TYPE_COUNT
             THEN /\ idx' = [idx EXCEPT ![c].huff_type = u + 1]
                  /\ UNCHANGED pc
             ELSE IF t + 1 < JPEG_COMPONENT_TYPE_COUNT
             THEN /\ idx' = [idx EXCEPT ![c].comp_type = t + 1, ![c].huff_type = 0]
                  /\ UNCHANGED pc
             ELSE /\ idx' = [idx EXCEPT ![c] = NoIdx]
                  /\ Goto(c, "cr_return")
    /\ UNCHANGED <<active, proc, args, writer, heap, heap0, creates, encoded, ret, out,
                   acc, mem>>

\* lines 78-83: one iteration of the nested Huffman-table initialisation loops
CreateTableHuffInit(c) ==
    /\ Running(c, "cr_hinit")
    /\ LET t == idx[c].comp_type
           u == idx[c].huff_type
           k == t * JPEG_HUFFMAN_TYPE_COUNT + u IN
        \/ /\ CreateFail(c, "hinit", k)
           /\ UNCHANGED <<enc, idx>>
        \/ /\ enc' = [enc EXCEPT ![c].th_init = @ \cup {<<t, u>>}]
           /\ Log(c, Ev("hinit", k, TRUE, -1, 0))
           /\ IF u + 1 < JPEG_HUFFMAN_TYPE_COUNT
                THEN /\ idx' = [idx EXCEPT ![c].huff_type = u + 1]
                     /\ UNCHANGED pc
                ELSE IF t + 1 < JPEG_COMPONENT_TYPE_COUNT
                THEN /\ idx' = [idx EXCEPT ![c].comp_type = t + 1, ![c].huff_type = 0]
                     /\ UNCHANGED pc
                ELSE /\ idx' = [idx EXCEPT ![c] = NoIdx]
                     /\ Goto(c, "cr_return")
           /\ UNCHANGED ret
    /\ UNCHANGED <<active, proc, args, writer, heap, heap0, creates, encoded, out, acc,
                   mem>>

\* line 85: return encoder
CreateReturn(c) ==
    /\ Running(c, "cr_return")
    /\ Goto(c, "ready")
    /\ Return(c, "create", "encoder")
    /\ UNCHANGED <<active, proc, args, enc, writer, heap, heap0, creates, encoded, idx,
                   out, trace, acc, mem>>

\* ------------------------------------------------------ jpeg_encoder_encode
\* one access of a step: the byte range [lo, hi) of buffer buf, which holds
\* cap bytes
Access(buf, lo, hi, cap) == [buf |-> buf, lo |-> lo, hi |-> hi, cap |-> cap]
InBounds(a) == 0 <= a.lo /\ a.lo <= a.hi /\ a.hi <= a.cap

\* line 128: int data_size = encoder->width * encoder->height * encoder->comp_count
EncodeDataSize(e) == e.width * e.height * e.comp_count

\* lines 143-144, 183: element offset of component comp in a data buffer
CompOffset(e, comp) == comp * e.width * e.height

\* ComponentType with every component given the luminance tables
ComponentType_AllLuminance(comp) == JPEG_COMPONENT_LUMINANCE

\* lines 147, 185: the table type of component comp
ComponentType(comp) ==
    IF comp = 0 THEN JPEG_COMPONENT_LUMINANCE ELSE JPEG_COMPONENT_CHROMINANCE

\* what every failing step of encode does: return -1
EncodeFail(c) ==
    /\ Goto(c, "ready")
    /\ Return(c, "encode", "-1")

\* EncodeCall with the writer's cursor reset on entry
EncodeCall_ResetsCursor(c) ==
    /\ Running(c, "ready")
    /\ Goto(c, "en_h2d")
    /\ writer' = [writer EXCEPT ![c].buffer_current = writer[c].buffer]
    /\ trace' = [trace EXCEPT ![c] = <<>>]
    /\ ret' = [ret EXCEPT ![c] = NoRet]
    /\ out' = [out EXCEPT ![c] = NoOut]
    /\ acc' = [acc EXCEPT ![c] = {}]
    /\ idx' = [idx EXCEPT ![c] = NoIdx]
    /\ encoded' = [encoded EXCEPT ![c] = TRUE]
    /\ UNCHANGED <<active, proc, args, enc, heap, heap0, creates, mem>>

\* The caller calls encode(encoder, image, &image_compressed, &size) with a
\* handle create returned and an image of width * height * comp_count bytes.
EncodeCall(c) ==
    /\ Running(c, "ready")
    /\ Goto(c, "en_h2d")
    /\ trace' = [trace EXCEPT ![c] = <<>>]
    /\ ret' = [ret EXCEPT ![c] = NoRet]
    /\ out' = [out EXCEPT ![c] = NoOut]
    /\ acc' = [acc EXCEPT ![c] = {}]
    /\ idx' = [idx EXCEPT ![c] = NoIdx]
    /\ encoded' = [encoded EXCEPT ![c] = TRUE]
    /\ UNCHANGED <<active, proc, args, enc, writer, heap, heap0, creates, mem>>

\* lines 130-132: cudaMemcpy(d_data_source, image, data_size, HostToDevice)
EncodeCopyToDevice(c) ==
    /\ Running(c, "en_h2d")
    /\ acc' = [acc EXCEPT ![c] =
                 {Access("d_data_source", 0, EncodeDataSize(enc[c]) * SizeofU8,
                         enc[c].d_data_source.size)}]
    /\ \E ok \in BOOLEAN :
        /\ Log(c, Ev("h2d", 0, ok, -1, 0))
        /\ IF ok THEN Goto(c, "en_pre") /\ UNCHANGED ret
                 ELSE EncodeFail(c)
    /\ UNCHANGED <<active, proc, args, enc, writer, heap, heap0, creates, encoded, idx,
                   out, mem>>

\* lines 137-139: jpeg_preprocessor_encode(encoder)
EncodePreprocess(c) ==
    /\ Running(c, "en_pre")
    /\ \E ok \in BOOLEAN :
        /\ Log(c, Ev("preprocess", 0, ok, -1, 0))
        /\ IF ok THEN Goto(c, "en_dct") /\ UNCHANGED ret
                 ELSE EncodeFail(c)
    /\ acc' = [acc EXCEPT ![c] = {}]
    /\ UNCHANGED <<active, proc, args, enc, writer, heap, heap0, creates, encoded, idx,
                   out, mem>>

\* EncodeDCT with the status of the transform not looked at
EncodeDCT_IgnoresStatus(c) ==
    /\ Running(c, "en_dct")
    /\ LET e == enc[c]
           comp == idx[c].comp IN
        /\ \E ok \in BOOLEAN :
            Log(c, EvT("dct", comp, ComponentType(comp), ok, -1, 0))
        /\ idx' = [idx EXCEPT ![c].comp = comp + 1]
        /\ IF comp + 1 < e.comp_count THEN UNCHANGED pc ELSE Goto(c, "en_reset")
    /\ acc' = [acc EXCEPT ![c] = {}]
    /\ UNCHANGED <<active, proc, args, enc, writer, heap, heap0, creates, encoded, ret,
                   out, mem>>

\* EncodeDCT with the loop left one component early
EncodeDCT_StopsEarly(c) ==
    /\ Running(c, "en_dct")
    /\ LET e == enc[c]
           comp == idx[c].comp IN
        /\ \E ok \in BOOLEAN :
            /\ Log(c, EvT("dct", comp, ComponentType(comp), ok, -1, 0))
            /\ IF ~ok
                 THEN /\ EncodeFail(c)
                      /\ UNCHANGED idx
                 ELSE /\ idx' = [idx EXCEPT ![c].comp = comp + 1]
                      /\ IF comp + 1 < e.comp_count - 1
                           THEN UNCHANGED pc
                           ELSE Goto(c, "en_reset")
                      /\ UNCHANGED ret
    /\ acc' = [acc EXCEPT ![c] = {}]
    /\ UNCHANGED <<active, proc, args, enc, writer, heap, heap0, creates, encoded, out,
                   mem>>

\* the contexts whose accelerator (dev) or pinned host coefficient buffer is
\* live next to the buffers of c
Neighbours(c, field) == {v \in active \ {c} : enc[v][field].st = "live"}

\* The transform of component comp writes its output to region comp of
\* d_data_quantized (line 144).  When the region ends past the buffer the
\* write is undefined: it may go unnoticed, or land in what follows the
\* buffer, the first region of a neighbouring accelerator buffer.
TransformWrites(c, comp) ==
    LET e == enc[c]
        own == [mem EXCEPT ![c].dq[comp] = Data(c, comp)]
        a == Access("d_data_quantized", CompOffset(e, comp) * SizeofI16,
                    (CompOffset(e, comp) + e.width * e.height) * SizeofI16,
                    e.d_data_quantized.size) IN
    IF InBounds(a)
      THEN {own}
      ELSE {own} \cup {[own EXCEPT ![v].dq[0] = Data(c, comp)] :
                         v \in Neighbours(c, "d_data_quantized")}

\* lines 142-169: one iteration of the forward DCT and quantization loop
EncodeDCT(c) ==
    /\ Running(c, "en_dct")
    /\ LET e == enc[c]
           comp == idx[c].comp
           type == ComponentType(comp)
           plane == e.width * e.height IN
        /\ acc' = [acc EXCEPT ![c] =
                     {Access("d_data", CompOffset(e, comp) * SizeofU8,
                             (CompOffset(e, comp) + plane) * SizeofU8,
                             e.d_data.size),
                      Access("d_data_quantized", CompOffset(e, comp) * SizeofI16,
                             (CompOffset(e, comp) + plane) * SizeofI16,
                             e.d_data_quantized.size)}]
        /\ \E ok \in BOOLEAN :
            /\ Log(c, EvR("dct", comp, type, ok, -1, 0, CompOffset(e, comp),
                          CompOffset(e, comp) + plane, NoData))
            /\ IF ~ok
                 THEN /\ EncodeFail(c)
                      /\ UNCHANGED <<idx, mem>>
                 ELSE /\ idx' = [idx EXCEPT ![c].comp = comp + 1]
                      /\ IF comp + 1 < e.comp_count
                           THEN UNCHANGED pc
                           ELSE Goto(c, "en_reset")
                      /\ mem' \in TransformWrites(c, comp)
                      /\ UNCHANGED ret
    /\ UNCHANGED <<active, proc, args, enc, writer, heap, heap0, creates, encoded, out>>

\* the writer's emission primitives: the tokens go to the cursor, which
\* advances past them
WriterEmit(w, toks) ==
    LET cur == w.buffer_current IN
    [w EXCEPT !.buffer_current = cur + Len(toks),
              !.data = SubSeq(w.data, 1, cur) \o toks]

Tok(t, k) == [tok |-> t, comp |-> k]

\* EncodeWriterReset with the cursor left where the last call put it
EncodeWriterReset_Skipped(c) ==
    /\ Running(c, "en_reset")
    /\ Log(c, Ev("reset", 0, TRUE, writer[c].buffer_current, 0))
    /\ Goto(c, "en_header")
    /\ acc' = [acc EXCEPT ![c] = {}]
    /\ UNCHANGED <<active, proc, args, enc, writer, heap, heap0, creates, encoded, idx,
                   ret, out, mem>>

\* lines 171-172: writer->buffer_current = writer->buffer
EncodeWriterReset(c) ==
    /\ Running(c, "en_reset")
    /\ writer' = [writer EXCEPT ![c].buffer_current = writer[c].buffer]
    /\ Log(c, Ev("reset", 0, TRUE, writer[c].buffer_current, 0))
    /\ Goto(c, "en_header")
    /\ acc' = [acc EXCEPT ![c] = {}]
    /\ UNCHANGED <<active, proc, args, enc, heap, heap0, creates, encoded, idx, ret,
                   out, mem>>

\* lines 174-175: jpeg_writer_write_header(encoder)
EncodeWriteHeader(c) ==
    /\ Running(c, "en_header")
    /\ writer' = [writer EXCEPT ![c] = WriterEmit(@, <<Tok("header", 0)>>)]
    /\ Log(c, Ev("header", 0, TRUE, writer[c].buffer_current, 1))
    /\ Goto(c, "en_d2h")
    /\ UNCHANGED <<active, proc, args, enc, heap, heap0, creates, encoded, idx, ret,
                   out, acc, mem>>

\* the host-side range the device-to-host copy writes (line 178)
CopyToHostAccess(e) ==
    Access("data_quantized", 0, EncodeDataSize(e) * SizeofI16, e.data_quantized.size)

\* The copy of line 178 brings every component region of d_data_quantized to
\* data_quantized.  When it ends past the host buffer the write is undefined:
\* it may go unnoticed, or land in what follows the buffer, the first region
\* of a neighbouring pinned host buffer; what it writes there was read past
\* the end of d_data_quantized.
CopyToHostWrites(c) ==
    LET own == [mem EXCEPT ![c].hq = mem[c].dq] IN
    IF InBounds(CopyToHostAccess(enc[c]))
      THEN {own}
      ELSE {own} \cup {[own EXCEPT ![v].hq[0] = Spill(c)] :
                         v \in Neighbours(c, "data_quantized")}

\* lines 177-178: cudaMemcpy(data_quantized, d_data_quantized, data_size *
\* sizeof(int16_t), DeviceToHost); the status is not looked at
EncodeCopyToHost(c) ==
    /\ Running(c, "en_d2h")
    /\ acc' = [acc EXCEPT ![c] =
                 {CopyToHostAccess(enc[c]),
                  Access("d_data_quantized", 0, EncodeDataSize(enc[c]) * SizeofI16,
                         enc[c].d_data_quantized.size)}]
    /\ \E ok \in BOOLEAN :
        /\ Log(c, Ev("d2h", 0, ok, -1, 0))
        /\ IF ok THEN mem' \in CopyToHostWrites(c) ELSE UNCHANGED mem
    /\ idx' = [idx EXCEPT ![c].comp = 0]
    /\ Goto(c, "en_scan")
    /\ UNCHANGED <<active, proc, args, enc, writer, heap, heap0, creates, encoded, ret,
                   out>>

\* lines 181-187: the component's region and type, then
\* jpeg_writer_write_scan_header(encoder, comp, type)
EncodeScanHeader(c) ==
    /\ Running(c, "en_scan")
    /\ LET comp == idx[c].comp
           type == ComponentType(comp) IN
        /\ writer' = [writer EXCEPT ![c] = WriterEmit(@, <<Tok("scan", comp)>>)]
        /\ Log(c, EvT("scan", comp, type, TRUE, writer[c].buffer_current, 1))
    /\ Goto(c, "en_huff")
    /\ acc' = [acc EXCEPT ![c] = {}]
    /\ UNCHANGED <<active, proc, args, enc, heap, heap0, creates, encoded, idx, ret,
                   out, mem>>

\* the host-side range the Huffman coder reads for component comp (line 183)
HuffmanAccess(e, comp) ==
    Access("data_quantized", CompOffset(e, comp) * SizeofI16,
           (CompOffset(e, comp) + e.width * e.height) * SizeofI16,
           e.data_quantized.size)

\* what data_quantized holds in the plane that starts at element offset off:
\* the region of the component laid out there, if any
HostPlane(c, off) ==
    LET ks == {k \in Components : CompOffset(enc[c], k) = off} IN
    IF ks = {} THEN NoData ELSE mem[c].hq[CHOOSE k \in ks : TRUE]

\* EncodeHuffman with the status of the coder not looked at
EncodeHuffman_IgnoresStatus(c) ==
    /\ Running(c, "en_huff")
    /\ LET e == enc[c]
           comp == idx[c].comp
           type == ComponentType(comp) IN
        /\ acc' = [acc EXCEPT ![c] = {HuffmanAccess(e, comp)}]
        /\ \E ok \in BOOLEAN, n \in 0..MaxScanLen :
            /\ writer' = [writer EXCEPT ![c] =
                            WriterEmit(@, [i \in 1..n |-> Tok("ecs", comp)])]
            /\ Log(c, EvR("huffman", comp, type, ok, writer[c].buffer_current, n,
                          CompOffset(e, comp),
                          CompOffset(e, comp) + e.width * e.height,
                          HostPlane(c, CompOffset(e, comp))))
        /\ idx' = [idx EXCEPT ![c].comp = comp + 1]
        /\ IF comp + 1 < e.comp_count
             THEN Goto(c, "en_scan")
             ELSE Goto(c, "en_eoi")
    /\ UNCHANGED <<active, proc, args, enc, heap, heap0, creates, encoded, ret, out,
                   mem>>

\* EncodeHuffman with the output reported to the caller on the failure path too
EncodeHuffman_ReportsPartial(c) ==
    /\ Running(c, "en_huff")
    /\ LET e == enc[c]
           comp == idx[c].comp
           type == ComponentType(comp) IN
        /\ acc' = [acc EXCEPT ![c] = {HuffmanAccess(e, comp)}]
        /\ \E ok \in BOOLEAN, n \in 0..MaxScanLen :
            /\ writer' = [writer EXCEPT ![c] =
                            WriterEmit(@, [i \in 1..n |-> Tok("ecs", comp)])]
            /\ Log(c, EvT("huffman", comp, type, ok, writer[c].buffer_current, n))
            /\ IF ~ok
                 THEN /\ EncodeFail(c)
                      /\ out' = [out EXCEPT ![c] =
                                   [ptr |-> writer[c].buffer,
                                    size |-> writer'[c].buffer_current
                                             - writer[c].buffer,
                                    written |-> TRUE]]
                      /\ UNCHANGED idx
                 ELSE /\ idx' = [idx EXCEPT ![c].comp = comp + 1]
                      /\ IF comp + 1 < e.comp_count
                           THEN Goto(c, "en_scan")
                           ELSE Goto(c, "en_eoi")
                      /\ UNCHANGED <<ret, out>>
    /\ UNCHANGED <<active, proc, args, enc, heap, heap0, creates, encoded, mem>>

\* lines 188-193: jpeg_huffman_encoder_encode(encoder, type, data_comp), which
\* appends its output to the writer; failure returns -1
EncodeHuffman(c) ==
    /\ Running(c, "en_huff")
    /\ LET e == enc[c]
           comp == idx[c].comp
           type == ComponentType(comp) IN
        /\ acc' = [acc EXCEPT ![c] = {HuffmanAccess(e, comp)}]
        /\ \E ok \in BOOLEAN, n \in 0..MaxScanLen :
            /\ writer' = [writer EXCEPT ![c] =
                            WriterEmit(@, [i \in 1..n |-> Tok("ecs", comp)])]
            /\ Log(c, EvR("huffman", comp, type, ok, writer[c].buffer_current, n,
                          CompOffset(e, comp),
                          CompOffset(e, comp) + e.width * e.height,
                          HostPlane(c, CompOffset(e, comp))))
            /\ IF ~ok
                 THEN /\ EncodeFail(c)
                      /\ UNCHANGED idx
                 ELSE /\ idx' = [idx EXCEPT ![c].comp = comp + 1]
                      /\ IF comp + 1 < e.comp_count
                           THEN Goto(c, "en_scan")
                           ELSE Goto(c, "en_eoi")
                      /\ UNCHANGED ret
    /\ UNCHANGED <<active, proc, args, enc, heap, heap0, creates, encoded, out, mem>>

\* EncodeEmitEOI with the marker left out
EncodeEmitEOI_Omitted(c) ==
    /\ Running(c, "en_eoi")
    /\ Goto(c, "en_return")
    /\ acc' = [acc EXCEPT ![c] = {}]
    /\ UNCHANGED <<active, proc, args, enc, writer, heap, heap0, creates, encoded, idx,
                   ret, out, trace, mem>>

\* line 195: jpeg_writer_emit_marker(encoder->writer, JPEG_MARKER_EOI)
EncodeEmitEOI(c) ==
    /\ Running(c, "en_eoi")
    /\ writer' = [writer EXCEPT ![c] = WriterEmit(@, <<Tok("eoi", 0)>>)]
    /\ Log(c, Ev("eoi", 0, TRUE, writer[c].buffer_current, 1))
    /\ Goto(c, "en_return")
    /\ acc' = [acc EXCEPT ![c] = {}]
    /\ UNCHANGED <<active, proc, args, enc, heap, heap0, creates, encoded, idx, ret,
                   out, mem>>

\* EncodeReturn with the writer handed over to the caller and cleared
EncodeReturn_ClearsWriter(c) ==
    /\ Running(c, "en_return")
    /\ out' = [out EXCEPT ![c] =
                 [ptr |-> writer[c].buffer,
                  size |-> writer[c].buffer_current - writer[c].buffer,
                  written |-> TRUE]]
    /\ enc' = [enc EXCEPT ![c].writer = NullPtr]
    /\ Goto(c, "ready")
    /\ Return(c, "encode", "0")
    /\ UNCHANGED <<active, proc, args, writer, heap, heap0, creates, encoded, idx,
                   trace, acc, mem>>

\* lines 197-201: set the caller's pointer and size, return 0
EncodeReturn(c) ==
    /\ Running(c, "en_return")
    /\ out' = [out EXCEPT ![c] =
                 [ptr |-> writer[c].buffer,
                  size |-> writer[c].buffer_current - writer[c].buffer,
                  written |-> TRUE]]
    /\ Goto(c, "ready")
    /\ Return(c, "encode", "0")
    /\ UNCHANGED <<active, proc, args, enc, writer, heap, heap0, creates, encoded, idx,
                   trace, acc, mem>>

\* A host access past the end of data_quantized (lines 178, 183-189) is
\* undefined: the step either runs on (EncodeCopyToHost, EncodeHuffman) or
\* faults and ends the process (this action).  An access past the end of an
\* accelerator buffer either goes unnoticed or makes the call report an error;
\* both are outcomes of the steps' status.
EncodeFault(c) ==
    /\ proc = "running"
    /\ c \in active
    /\ \/ pc[c] = "en_d2h" /\ ~InBounds(CopyToHostAccess(enc[c]))
       \/ pc[c] = "en_huff" /\ ~InBounds(HuffmanAccess(enc[c], idx[c].comp))
    /\ proc' = "crashed"
    /\ UNCHANGED <<active, pc, args, enc, writer, heap, heap0, creates, encoded, idx,
                   ret, out, trace, acc, mem>>

\* ----------------------------------------------------- jpeg_encoder_destroy
\* assert(p != NULL)
AssertNotNull(p) == p.st # "null"

\* The caller calls destroy(encoder) with a handle create returned; line 208
\* asserts encoder != NULL.
DestroyCall(c) ==
    /\ Running(c, "ready")
    /\ Goto(c, "de_tables")
    /\ trace' = [trace EXCEPT ![c] = <<>>]
    /\ ret' = [ret EXCEPT ![c] = NoRet]
    /\ acc' = [acc EXCEPT ![c] = {}]
    /\ idx' = [idx EXCEPT ![c] = NoIdx]
    /\ UNCHANGED <<active, proc, args, enc, writer, heap, heap0, creates, encoded, out,
                   mem>>

\* lines 210-213: one iteration of the table release loop
DestroyTables(c) ==
    /\ Running(c, "de_tables")
    /\ LET t == idx[c].comp_type IN
        /\ IF enc[c].d_table[t].st # "null"
             THEN /\ Release(c, TableName(t))
                  /\ enc' = [enc EXCEPT ![c].d_table[t] = Freed(@)]
                  /\ Log(c, Ev("free_d_table", t, TRUE, -1, 0))
             ELSE UNCHANGED <<heap, enc, trace>>
        /\ IF t + 1 < JPEG_COMPONENT_TYPE_COUNT
             THEN /\ idx' = [idx EXCEPT ![c].comp_type = t + 1]
                  /\ UNCHANGED pc
             ELSE /\ idx' = [idx EXCEPT ![c].comp_type = 0]
                  /\ Goto(c, "de_writer")
    /\ UNCHANGED <<active, proc, args, writer, heap0, creates, encoded, ret, out, acc,
                   mem>>

\* one asserted release of a data buffer in destroy (lines 218-225):
\* assert(field != NULL), then the release call
DestroyField(c, here, field, next) ==
    /\ Running(c, here)
    /\ IF AssertNotNull(enc[c][field])
         THEN /\ Release(c, field)
              /\ enc' = [enc EXCEPT ![c][field] = Freed(@)]
              /\ Log(c, Ev(field, 0, TRUE, -1, 0))
              /\ Goto(c, next)
              /\ UNCHANGED proc
         ELSE /\ proc' = "aborted"
              /\ UNCHANGED <<heap, enc, trace, pc>>
    /\ UNCHANGED <<active, args, writer, heap0, creates, encoded, idx, ret, out, acc,
                   mem>>

\* lines 215-216: assert(writer != NULL), jpeg_writer_destroy(writer)
DestroyWriter(c) ==
    /\ Running(c, "de_writer")
    /\ IF AssertNotNull(enc[c].writer)
         THEN /\ Release(c, "writer")
              /\ enc' = [enc EXCEPT ![c].writer = Freed(@)]
              /\ writer' = [writer EXCEPT ![c] = NoWriter]
              /\ Log(c, Ev("writer", 0, TRUE, -1, 0))
              /\ Goto(c, "de_src")
              /\ UNCHANGED proc
         ELSE /\ proc' = "aborted"
              /\ UNCHANGED <<heap, enc, writer, trace, pc>>
    /\ UNCHANGED <<active, args, heap0, creates, encoded, idx, ret, out, acc, mem>>

\* lines 218-219
DestroyDataSource(c) == DestroyField(c, "de_src", "d_data_source", "de_data")

\* DestroyData with the assertion kept and the cudaFree left out
DestroyData_NoFree(c) ==
    /\ Running(c, "de_data")
    /\ IF AssertNotNull(enc[c].d_data)
         THEN Goto(c, "de_hq") /\ UNCHANGED proc
         ELSE proc' = "aborted" /\ UNCHANGED pc
    /\ UNCHANGED <<active, args, enc, writer, heap, heap0, creates, encoded, idx, ret,
                   out, trace, acc, mem>>

\* lines 220-221
DestroyData(c) == DestroyField(c, "de_data", "d_data", "de_hq")

\* lines 222-223
DestroyDataQuantizedHost(c) == DestroyField(c, "de_hq", "data_quantized", "de_dq")

\* lines 224-225
DestroyDataQuantizedDev(c) ==
    DestroyField(c, "de_dq", "d_data_quantized", "de_free")

\* lines 227-229: free(encoder); return 0
DestroyFree(c) ==
    /\ Running(c, "de_free")
    /\ Release(c, "encoder")
    /\ enc' = [enc EXCEPT ![c] = RawEncoder]
    /\ mem' = [mem EXCEPT ![c] = NoMem]
    /\ Log(c, Ev("encoder", 0, TRUE, -1, 0))
    /\ Goto(c, "idle")
    /\ Return(c, "destroy", "0")
    /\ UNCHANGED <<active, proc, args, writer, heap0, creates, encoded, idx, out, acc>>

Next ==
    \E c \in Ctx :
        \/ CreateCall(c)
        \/ CreateMalloc(c)
        \/ CreateWriter(c)
        \/ CreateDataSource(c)
        \/ CreateData(c)
        \/ CreateDataQuantizedHost(c)
        \/ CreateDataQuantizedDev(c)
        \/ CreateTableAlloc(c)
        \/ CreateTableQuantInit(c)
        \/ CreateTableHuffInit(c)
        \/ CreateReturn(c)
        \/ EncodeCall(c)
        \/ EncodeCopyToDevice(c)
        \/ EncodePreprocess(c)
        \/ EncodeDCT(c)
        \/ EncodeWriterReset(c)
        \/ EncodeWriteHeader(c)
        \/ EncodeCopyToHost(c)
        \/ EncodeScanHeader(c)
        \/ EncodeHuffman(c)
        \/ EncodeEmitEOI(c)
        \/ EncodeReturn(c)
        \/ EncodeFault(c)
        \/ DestroyCall(c)
        \/ DestroyTables(c)
        \/ DestroyWriter(c)
        \/ DestroyDataSource(c)
        \/ DestroyData(c)
        \/ DestroyDataQuantizedHost(c)
        \/ DestroyDataQuantizedDev(c)
        \/ DestroyFree(c)

Spec == Init /\ [][Next]_vars

\* ------------------------------------------------- a writer that can fail
\* Section 6 of the specification gives the writer's emission primitives no
\* status but speaks of their failures.  Lines 175, 187 and 195 call them as
\* statements: whatever a failed emission is, encode goes on to the next line.
\* A failed emission writes nothing and leaves the cursor where it was.
EmissionFails(c, here, ev, comp, type, next) ==
    /\ Running(c, here)
    /\ Log(c, EvT(ev, comp, type, FALSE, writer[c].buffer_current, 0))
    /\ Goto(c, next)
    /\ acc' = [acc EXCEPT ![c] = {}]
    /\ UNCHANGED <<active, proc, args, enc, writer, heap, heap0, creates, encoded, idx,
                   ret, out, mem>>

\* lines 174-175, the header not written
EncodeWriteHeaderFails(c) ==
    EmissionFails(c, "en_header", "header", 0, -1, "en_d2h")

\* lines 186-187, the scan header not written
EncodeScanHeaderFails(c) ==
    EmissionFails(c, "en_scan", "scan", idx[c].comp, ComponentType(idx[c].comp),
                  "en_huff")

\* line 195, the marker not written
EncodeEmitEOIFails(c) ==
    EmissionFails(c, "en_eoi", "eoi", 0, -1, "en_return")

NextWriterFails ==
    \/ Next
    \/ \E c \in Ctx :
        \/ EncodeWriteHeaderFails(c)
        \/ EncodeScanHeaderFails(c)
        \/ EncodeEmitEOIFails(c)

SpecWriterFails == Init /\ [][NextWriterFails]_vars

\* ------------------------------------------------- two contexts side by side
\* Both slots are in use: each is created once and encodes one image, the
\* steps of the two contexts interleaved in any order.
InitTwo ==
    /\ active = Ctx
    /\ InitCommon

\* the one encode call of a context
EncodeCallOnce(c) ==
    /\ ~encoded[c]
    /\ EncodeCall(c)

NextTwo ==
    \E c \in Ctx :
        \/ CreateCall(c)
        \/ CreateMalloc(c)
        \/ CreateWriter(c)
        \/ CreateDataSource(c)
        \/ CreateData(c)
        \/ CreateDataQuantizedHost(c)
        \/ CreateDataQuantizedDev(c)
        \/ CreateTableAlloc(c)
        \/ CreateTableQuantInit(c)
        \/ CreateTableHuffInit(c)
        \/ CreateReturn(c)
        \/ EncodeCallOnce(c)
        \/ EncodeCopyToDevice(c)
        \/ EncodePreprocess(c)
        \/ EncodeDCT(c)
        \/ EncodeWriterReset(c)
        \/ EncodeWriteHeader(c)
        \/ EncodeCopyToHost(c)
        \/ EncodeScanHeader(c)
        \/ EncodeHuffman(c)
        \/ EncodeEmitEOI(c)
        \/ EncodeReturn(c)
        \/ EncodeFault(c)

SpecTwo == InitTwo /\ [][NextTwo]_vars

\* ------------------------------------------------------- reading the state
\* the call on context c has returned v from operation op
Returned(c, op, v) == ret[c] = [op |-> op, val |-> v]

\* the positions inside an encode call
EncodePcs ==
    {"en_h2d", "en_pre", "en_dct", "en_reset", "en_header", "en_d2h", "en_scan",
     "en_huff", "en_eoi", "en_return"}

EmissionKinds == {"header", "scan", "huffman", "eoi"}
IsEmission(e) == e.ev \in EmissionKinds

\* the emissions of a call, in the order they were made
Emissions(tr) == SelectSeq(tr, IsEmission)

\* the tokens a sequence of events wrote to the writer
RECURSIVE EmittedLen(_)
EmittedLen(tr) == IF tr = <<>> THEN 0 ELSE Head(tr).len + EmittedLen(Tail(tr))

\* the indices of the events of kind ev in tr
Where(tr, ev) == {i \in 1..Len(tr) : tr[i].ev = ev}

\* the steps a create call goes through, as (event, index) pairs
CreateSteps ==
    {<<"malloc", 0>>, <<"writer", 0>>, <<"d_data_source", 0>>, <<"d_data", 0>>,
     <<"data_quantized", 0>>, <<"d_data_quantized", 0>>}
    \cup {<<"d_table", t>> : t \in 0..(JPEG_COMPONENT_TYPE_COUNT - 1)}
    \cup {<<"qinit", t>> : t \in 0..(JPEG_COMPONENT_TYPE_COUNT - 1)}
    \cup {<<"hinit", k>> :
            k \in 0..(JPEG_COMPONENT_TYPE_COUNT * JPEG_HUFFMAN_TYPE_COUNT - 1)}

\* step st of create was made and succeeded
StepOk(tr, st) == \E i \in 1..Len(tr) : tr[i].ev = st[1] /\ tr[i].comp = st[2] /\ tr[i].ok

\* ------------------------------------------------------------------ claims

\* C1 (as claimed): every access encode makes - the host-to-accelerator copy,
\* each component's transform input and output region, the accelerator-to-host
\* copy - lies inside the buffer create allocated for it, whatever the width
\* and the height.
C1_EncodeAccessesInsideBuffers ==
    \A c \in active : \A a \in acc[c] : InBounds(a)

\* C2 (as claimed): when the accelerator-to-host copy of the coefficients
\* fails, encode returns the failure signal at once: the failed copy is the
\* last event of the call and nothing is reported to the caller.
C2_CopyToHostFailureAborts ==
    \A c \in active : \A i \in Where(trace[c], "d2h") :
        ~trace[c][i].ok =>
            /\ i = Len(trace[c])
            /\ Returned(c, "encode", "-1")
            /\ ~out[c].written

\* C3: when the transform fails on component k, encode returns failure, the
\* transform is invoked for no component after k and the entropy stage is
\* invoked for no component in that call.
C3_TransformFailureAborts ==
    \A c \in active : \A i \in Where(trace[c], "dct") :
        ~trace[c][i].ok =>
            /\ Returned(c, "encode", "-1")
            /\ pc[c] = "ready"
            /\ \A j \in Where(trace[c], "dct") :
                 j # i => trace[c][j].comp < trace[c][i].comp
            /\ Where(trace[c], "huffman") = {}

\* C3 witness: a call in which the transform of component 1 failed
C3_Witness ==
    \E c \in active : \E i \in Where(trace[c], "dct") :
        /\ trace[c][i].comp = 1
        /\ ~trace[c][i].ok
        /\ Returned(c, "encode", "-1")

\* C4: on every path on which encode returns failure the caller's pointer and
\* length are not written; they are written only on the path that returns
\* success, after the trailer marker was emitted.
C4_OutputOnlyOnSuccess ==
    \A c \in active :
        /\ Returned(c, "encode", "-1") => out[c] = NoOut
        /\ pc[c] \in EncodePcs => out[c] = NoOut
        /\ Returned(c, "encode", "0") =>
             /\ out[c].written
             /\ trace[c] # <<>>
             /\ trace[c][Len(trace[c])].ev = "eoi"

\* C4 witness: encode returned failure from the entropy stage, after tokens
\* had been emitted into the writer
C4_Witness ==
    \E c \in active :
        /\ Returned(c, "encode", "-1")
        /\ \E i \in Where(trace[c], "huffman") : ~trace[c][i].ok
        /\ writer[c].buffer_current > 1

\* C5: whatever calls went before, a successful encode reports the writer's
\* buffer start and the number of tokens emitted during that call alone, and
\* the header of that call lies at offset 0 of the writer's buffer.
C5_OutputIsThisCallOnly ==
    \A c \in active :
        Returned(c, "encode", "0") =>
            /\ out[c].ptr = writer[c].buffer
            /\ out[c].size = EmittedLen(trace[c])
            /\ \A i \in Where(trace[c], "header") :
                 trace[c][i].at = writer[c].buffer
            /\ Where(trace[c], "header") # {}

\* C5 witness: a successful encode that found the cursor where an earlier
\* call had left it
C5_Witness ==
    \E c \in active :
        /\ Returned(c, "encode", "0")
        /\ \E i \in Where(trace[c], "reset") : trace[c][i].at > writer[c].buffer

\* C6: the accelerator-to-host copy is issued only after the transform was
\* invoked and succeeded for every component 0..comp_count-1, and the entropy
\* stage is invoked for no component before that copy.
C6_CopyAfterAllTransforms ==
    \A c \in active :
        /\ \A i \in Where(trace[c], "d2h") :
             \A k \in 0..(enc[c].comp_count - 1) :
                 \E j \in 1..(i - 1) :
                     /\ trace[c][j].ev = "dct"
                     /\ trace[c][j].comp = k
                     /\ trace[c][j].ok
        /\ \A h \in Where(trace[c], "huffman") :
             \E i \in Where(trace[c], "d2h") : i < h

\* C6 witness: a call that made the copy and invoked the entropy stage
C6_Witness ==
    \E c \in active :
        /\ Where(trace[c], "d2h") # {}
        /\ Where(trace[c], "huffman") # {}
        /\ enc[c].comp_count = 3

C8_BadCompCountReturnsFailure ==
    \A c \in active :
        (creates[c] > 0 /\ args[c].comp_count # 3) =>
            /\ Returned(c, "create", "NULL")
            /\ heap[c] = heap0[c]

\* C9: create returns a handle if and only if every one of its steps - the
\* aggregate, the writer, the four data buffers, the two table slots, the two
\* quantization-table and the four entropy-table initialisations - succeeded;
\* when one fails it returns the failure signal and the caller has no handle.
C9_HandleIffAllStepsOk ==
    \A c \in active :
        ret[c].op = "create" =>
            /\ ret[c].val = "encoder" <=> \A st \in CreateSteps : StepOk(trace[c], st)
            /\ ret[c].val = "NULL" <=> \E i \in 1..Len(trace[c]) : ~trace[c][i].ok
            /\ ret[c].val = "encoder" => pc[c] = "ready"
            /\ ret[c].val = "NULL" => pc[c] = "failed"

\* C9 witness: create returned the failure signal because the last
\* entropy-table initialisation failed
C9_Witness ==
    \E c \in active :
        /\ Returned(c, "create", "NULL")
        /\ \E i \in Where(trace[c], "hinit") :
             trace[c][i].comp = 3 /\ ~trace[c][i].ok

\* the releases destroy makes, as (event, index) pairs
DestroySteps ==
    {<<"free_d_table", t>> : t \in 0..(JPEG_COMPONENT_TYPE_COUNT - 1)}
    \cup {<<"writer", 0>>, <<"d_data_source", 0>>, <<"d_data", 0>>,
          <<"data_quantized", 0>>, <<"d_data_quantized", 0>>, <<"encoder", 0>>}

\* C10: destroy called right after a successful create (no encode in between)
\* succeeds and releases each resource create acquired exactly once, so that
\* the live allocations after destroy are those from before create.
C10_DestroyReleasesAll ==
    \A c \in active :
        (ret[c].op = "destroy" /\ ~encoded[c]) =>
            /\ ret[c].val = "0"
            /\ heap[c] = heap0[c]
            /\ \A st \in DestroySteps :
                 Cardinality({i \in 1..Len(trace[c]) :
                                trace[c][i].ev = st[1] /\ trace[c][i].comp = st[2]}) = 1
            /\ Len(trace[c]) = Cardinality(DestroySteps)

\* C10 witness: destroy returned on a handle no encode was ever called on
C10_Witness ==
    \E c \in active :
        /\ Returned(c, "destroy", "0")
        /\ ~encoded[c]

\* the data of a coefficient region is the context's own (or nothing yet)
OwnData(c, d) == d.by \in {"none", c}

\* C11 (as claimed): two contexts share no mutable state.  Whatever the
\* interleaving of the steps of the two encode calls, the coefficient buffers
\* of a context hold only what its own call put there and its entropy stage
\* reads only that, as when the calls run one after the other.
C11_ContextsIndependent ==
    \A c \in active :
        /\ \A k \in Components : OwnData(c, mem[c].dq[k]) /\ OwnData(c, mem[c].hq[k])
        /\ \A i \in Where(trace[c], "huffman") : OwnData(c, trace[c][i].data)

\* the step of create that acquires resource r
AcquiredBy(r) ==
    CASE r = "encoder" -> <<"malloc", 0>>
      [] r = "d_table0" -> <<"d_table", 0>>
      [] r = "d_table1" -> <<"d_table", 1>>
      [] OTHER -> <<r, 0>>

\* C12: when create fails at a step after the aggregate was allocated, every
\* resource an earlier step of that call acquired is still allocated (nothing
\* is released), and the caller, who got the failure signal and no handle,
\* can reach none of them: no call is made on that context again.
C12_FailedCreateReleasesNothing ==
    \A c \in active :
        (Returned(c, "create", "NULL") /\ StepOk(trace[c], <<"malloc", 0>>)) =>
            /\ \A r \in Resources :
                 heap[c][r] = heap0[c][r]
                              + (IF StepOk(trace[c], AcquiredBy(r)) THEN 1 ELSE 0)
            /\ heap[c]["encoder"] > heap0[c]["encoder"]
            /\ \A i \in 1..Len(trace[c]) :
                 <<trace[c][i].ev, trace[c][i].comp>> \in CreateSteps
            /\ pc[c] = "failed"

\* C12 witness: create failed allocating the second table slot, with the
\* aggregate, the writer, the four buffers and the first slot still allocated
C12_Witness ==
    \E c \in active :
        /\ Returned(c, "create", "NULL")
        /\ \E i \in Where(trace[c], "d_table") :
             trace[c][i].comp = 1 /\ ~trace[c][i].ok
        /\ heap[c]["d_table0"] = 1
        /\ heap[c]["d_data_quantized"] = 1

\* the writer emissions encode makes itself
WriterCalls == {"header", "scan", "eoi"}

\* C13 (as claimed): when an emission encode makes on the writer - the
\* header, a scan header or the trailer marker - fails, encode does not
\* report a compressed range as success: it neither returns 0 nor sets the
\* caller's pointer and length.
C13_EmissionFailureEscalated ==
    \A c \in active :
        (\E i \in 1..Len(trace[c]) : trace[c][i].ev \in WriterCalls /\ ~trace[c][i].ok) =>
            /\ ~Returned(c, "encode", "0")
            /\ ~out[c].written

\* the element range of component k in a buffer laid out by planes
Region(e, k) == [lo |-> k * e.width * e.height, hi |-> (k + 1) * e.width * e.height]

\* C14 (as claimed): for every component k the region the entropy stage
\* reads in data_quantized is the region the transform wrote in
\* d_data_quantized - offset k * width * height, length width * height - the
\* regions of two components do not overlap, and what the entropy stage reads
\* there after the copy is exactly the transform output of component k.
C14_EntropyReadsTransformOutput ==
    \A c \in active : \A h \in Where(trace[c], "huffman") :
        LET ev == trace[c][h]
            k == ev.comp IN
        /\ ev.lo = Region(enc[c], k).lo
        /\ ev.hi = Region(enc[c], k).hi
        /\ \E d \in Where(trace[c], "dct") :
             /\ d < h
             /\ trace[c][d].comp = k
             /\ trace[c][d].lo = ev.lo
             /\ trace[c][d].hi = ev.hi
        /\ \A d \in Where(trace[c], "dct") :
             trace[c][d].comp # k =>
                 \/ trace[c][d].hi <= ev.lo
                 \/ ev.hi <= trace[c][d].lo
        /\ ev.data = Data(c, k)

\* the stages that are given a component class
ClassedStages == {"dct", "scan", "huffman"}

\* C15: in every encode call component 0 is given the luminance class and
\* every other component the chrominance class, and for each component the
\* class the transform chose its quantization table by is the class passed to
\* the scan header and to the entropy stage.
C15_ComponentClass ==
    \A c \in active : \A i \in 1..Len(trace[c]) :
        LET ev == trace[c][i] IN
        ev.ev \in ClassedStages =>
            /\ ev.comp = 0 => ev.type = JPEG_COMPONENT_LUMINANCE
            /\ ev.comp # 0 => ev.type = JPEG_COMPONENT_CHROMINANCE
            /\ \A j \in 1..Len(trace[c]) :
                 (trace[c][j].ev \in ClassedStages /\ trace[c][j].comp = ev.comp) =>
                     trace[c][j].type = ev.type

\* C15 witness: the transform, the scan header and the entropy stage were
\* all invoked for the last component, and the transform for component 0
C15_Witness ==
    \E c \in active :
        /\ \A st \in ClassedStages :
             \E i \in Where(trace[c], st) : trace[c][i].comp = 2
        /\ \E i \in Where(trace[c], "huffman") :
             trace[c][i].comp = 0 /\ trace[c][i].type = JPEG_COMPONENT_LUMINANCE

\* C16: when the entropy stage fails on component k, encode returns failure
\* at once: the failed invocation is the last event of the call, no scan
\* header is emitted and the entropy stage is not invoked for a component
\* after k, and the trailer marker is not emitted in that call.
C16_EntropyFailureAborts ==
    \A c \in active : \A i \in Where(trace[c], "huffman") :
        ~trace[c][i].ok =>
            /\ i = Len(trace[c])
            /\ Returned(c, "encode", "-1")
            /\ pc[c] = "ready"
            /\ \A j \in Where(trace[c], "scan") \cup Where(trace[c], "huffman") :
                 trace[c][j].comp <= trace[c][i].comp
            /\ Where(trace[c], "eoi") = {}
            /\ \A t \in 1..Len(writer[c].data) : writer[c].data[t].tok # "eoi"

\* C16 witness: the entropy stage failed on component 1, after the scan of
\* component 0 had been written
C16_Witness ==
    \E c \in active : \E i \in Where(trace[c], "huffman") :
        /\ trace[c][i].comp = 1
        /\ ~trace[c][i].ok
        /\ \E j \in Where(trace[c], "huffman") : trace[c][j].comp = 0 /\ trace[c][j].ok

\* the positions of encode before the cursor reset: the host-to-accelerator
\* copy, the preprocessor and the transform loop
EarlyPcs == {"en_h2d", "en_pre", "en_dct"}

\* C17: an encode call that fails in the host-to-accelerator transfer, in the
\* preprocessor or in the transform of a component leaves the writer as the
\* previous call left it: neither the step that enters the call, nor a step
\* that stays in these stages, nor the failing return from them changes the
\* writer's cursor or contents.
C17_EarlyFailureLeavesWriter ==
    [][\A c \in Ctx :
         (pc'[c] \in EarlyPcs \/ (pc[c] \in EarlyPcs /\ pc'[c] = "ready")) =>
             writer'[c] = writer[c]]_vars

\* C17 witness: the transform of the last component failed in a call that
\* followed a complete one, and the writer still holds the earlier stream up
\* to its trailer
C17_Witness ==
    \E c \in active :
        /\ Returned(c, "encode", "-1")
        /\ trace[c] # <<>>
        /\ trace[c][Len(trace[c])].ev = "dct"
        /\ trace[c][Len(trace[c])].comp = 2
        /\ writer[c].buffer_current > writer[c].buffer
        /\ writer[c].data # <<>>
        /\ writer[c].data[Len(writer[c].data)] = Tok("eoi", 0)

\* the positions inside a destroy call
DestroyPcs ==
    {"de_tables", "de_writer", "de_src", "de_data", "de_hq", "de_dq", "de_free"}

\* the pointers destroy has yet to assert non-null (lines 215-224) when it is
\* at position l
ToAssert(l) ==
    CASE l \in {"de_tables", "de_writer"} ->
           {"writer", "d_data_source", "d_data", "data_quantized", "d_data_quantized"}
      [] l = "de_src" -> {"d_data_source", "d_data", "data_quantized", "d_data_quantized"}
      [] l = "de_data" -> {"d_data", "data_quantized", "d_data_quantized"}
      [] l = "de_hq" -> {"data_quantized", "d_data_quantized"}
      [] l = "de_dq" -> {"d_data_quantized"}
      [] OTHER -> {}

\* C18: every assertion of destroy holds when it is called once on the handle
\* of a successful create, after any number of successful or failed encode
\* calls: the writer, the source buffer, the working buffer and the two
\* quantized buffers are non-null (and still allocated) when their assertion
\* is reached, and no destroy call aborts.
C18_DestroyAssertionsHold ==
    \A c \in active :
        pc[c] \in DestroyPcs =>
            /\ \A f \in ToAssert(pc[c]) :
                 AssertNotNull(enc[c][f]) /\ enc[c][f].st = "live"
            /\ enc[c].width > 0 /\ enc[c].height > 0
            /\ proc # "aborted"

\* C18 witness: destroy reached its last assertion on a handle whose last
\* encode call had failed
C18_Witness ==
    \E c \in active :
        /\ pc[c] = "de_dq"
        /\ encoded[c]
        /\ out[c] = NoOut
        /\ enc[c].d_data_quantized.st = "live"
====
